---- MODULE Spec2Model ----
(***************************************************************************)
(* Connection Depth Analyzer (src/analyzer.py).                            *)
(*                                                                         *)
(* The pipeline parse_conversation -> analyze_conversation is modelled as  *)
(* a state machine.  A transcript is read line by line; a line is a        *)
(* sequence of tokens.  A token is either one whitespace character " ",    *)
(* a speaker label with its colon ("Human:"), or a word.  Words are        *)
(* atomic: the regular expressions of analyze_turn are matched token by    *)
(* token, the blanks of a pattern against " " tokens.                      *)
(*                                                                         *)
(* Python floats are IEEE-754 binary64.  A float is modelled exactly, as   *)
(* the rational num/den + err/(den * 2^FracBits); every arithmetic         *)
(* operation computes the exact result and rounds it to the nearest        *)
(* 53-bit significand, ties to even.                                       *)
(***************************************************************************)
EXTENDS Integers, Sequences, FiniteSets, TLC

VARIABLES
    lines,            \* the lines of the transcript consumed so far
    current_speaker,  \* parse_conversation: current_speaker (None, "human", "ai")
    current_text,     \* parse_conversation: current_text, a list of fragments
    turns,            \* the List[Turn] built by the parser, annotated in place
    analysis,         \* the ConnectionAnalysis returned, or NoAnalysis
    pc                \* "parsing", "parsed", "analyzed"

vars == <<lines, current_speaker, current_text, turns, analysis, pc>>

None == "None"
NoAnalysis == [turn_count |-> -1]

(***************************************************************************)
(* Bounds.                                                                 *)
(***************************************************************************)
MaxLines == 8
MaxParseLines == 4

(***************************************************************************)
(* Strings.                                                                *)
(***************************************************************************)
WS == " "

\* str.lower() and re.IGNORECASE, on the tokens that carry upper case
Lower(tok) ==
    CASE tok = "Human:" -> "human:"
      [] tok = "USER:"  -> "user:"
      [] tok = "You:"   -> "you:"
      [] tok = "AI:"    -> "ai:"
      [] tok = "Bot:"   -> "bot:"
      [] tok = "Claude:" -> "claude:"
      [] tok = "I"      -> "i"
      [] tok = "Wow"    -> "wow"
      [] OTHER          -> tok

LowerText(text) == [i \in 1..Len(text) |-> Lower(text[i])]

RECURSIVE LStrip(_)
LStrip(s) == IF s # <<>> /\ Head(s) = WS THEN LStrip(Tail(s)) ELSE s

RECURSIVE RStrip(_)
RStrip(s) ==
    IF s # <<>> /\ s[Len(s)] = WS THEN RStrip(SubSeq(s, 1, Len(s) - 1)) ELSE s

\* str.strip()
Strip(s) == RStrip(LStrip(s))

\* ' '.join(fragments)
RECURSIVE Join(_)
Join(frags) ==
    IF frags = <<>> THEN <<>>
    ELSE IF Len(frags) = 1 THEN frags[1]
    ELSE frags[1] \o <<WS>> \o Join(Tail(frags))

(***************************************************************************)
(* parse_conversation                                                      *)
(***************************************************************************)
HumanLabels == {"human:", "user:", "you:"}
AiLabels == {"ai:", "assistant:", "bot:", "claude:", "gpt:", "clio:"}

\* re.match(r'^(Human|User|You):', line, re.IGNORECASE)
IsHumanLabelLine(line) == line # <<>> /\ Lower(line[1]) \in HumanLabels
\* re.match(r'^(AI|Assistant|Bot|Claude|GPT|Clio):', line, re.IGNORECASE)
IsAiLabelLine(line) == line # <<>> /\ Lower(line[1]) \in AiLabels

\* StripLabel without the \s* of the pattern
StripLabelOnly(line) == Tail(line)

\* re.sub(r'^(...):\s*', '', line): the label and the whitespace after it
StripLabel(line) == LStrip(Tail(line))

NewTurn(speaker, text) ==
    [speaker |-> speaker, text |-> text,
     curiosity_shown |-> FALSE, acknowledgment_given |-> FALSE,
     space_given |-> FALSE, continuity_referenced |-> FALSE,
     emotion_expressed |-> FALSE, uncertainty_allowed |-> FALSE]

\* Flush that tests the joined text instead of the list of fragments
FlushNonEmpty(ts, speaker, frags) ==
    IF speaker # None /\ Join(frags) # <<>>
    THEN Append(ts, NewTurn(speaker, Join(frags)))
    ELSE ts

\* if current_speaker and current_text: turns.append(Turn(...))
Flush(ts, speaker, frags) ==
    IF speaker # None /\ frags # <<>>
    THEN Append(ts, NewTurn(speaker, Join(frags)))
    ELSE ts

\* one iteration of "for line in lines"
ParseLine(raw) ==
    /\ pc = "parsing"
    /\ lines' = Append(lines, raw)
    /\ LET line == Strip(raw) IN
       IF line = <<>>
       THEN UNCHANGED <<current_speaker, current_text, turns>>
       ELSE IF IsHumanLabelLine(line)
       THEN /\ turns' = Flush(turns, current_speaker, current_text)
            /\ current_speaker' = "human"
            /\ current_text' = <<StripLabel(line)>>
       ELSE IF IsAiLabelLine(line)
       THEN /\ turns' = Flush(turns, current_speaker, current_text)
            /\ current_speaker' = "ai"
            /\ current_text' = <<StripLabel(line)>>
       ELSE /\ current_text' = Append(current_text, line)
            /\ UNCHANGED <<current_speaker, turns>>
    /\ UNCHANGED <<analysis, pc>>

\* after the loop: the last flush and the return
ParseFinish ==
    /\ pc = "parsing"
    /\ turns' = Flush(turns, current_speaker, current_text)
    /\ pc' = "parsed"
    /\ UNCHANGED <<lines, current_speaker, current_text, analysis>>

(***************************************************************************)
(* Regular expressions of analyze_turn, over tokens.                       *)
(***************************************************************************)
\* the words of a phrase separated by single blanks
RECURSIVE Phrase(_)
Phrase(words) ==
    IF Len(words) <= 1 THEN words
    ELSE <<words[1], WS>> \o Phrase(Tail(words))

\* pattern p matches text at position i
MatchAt(text, i, p) ==
    /\ i + Len(p) - 1 <= Len(text)
    /\ \A k \in 1..Len(p) : text[i + k - 1] = p[k]

\* a compiled alternation of literals: the alternatives by their first token
Compile(pats) == [h \in {p[1] : p \in pats} |-> {p \in pats : p[1] = h}]

\* re.search of a compiled alternation: some alternative matches somewhere
Search(text, re) ==
    \E i \in 1..Len(text) :
        /\ text[i] \in DOMAIN re
        /\ \E p \in re[text[i]] : MatchAt(text, i, p)

\* re.search of  pre.*(s1|s2|...)
SearchGap(text, pre, sufs) ==
    \E i \in 1..Len(text) :
        /\ MatchAt(text, i, pre)
        /\ \E s \in sufs : \E j \in (i + Len(pre))..Len(text) : MatchAt(text, j, s)

curiosity_patterns == Compile(
    {Phrase(<<"what", "do", "you", "think">>),
     Phrase(<<"how", "do", "you", "feel">>)}
    \cup {Phrase(<<"what's", "that", "like">>)}
    \cup {Phrase(<<"what", v, "that", "like">>) : v \in {"is", "was"}}
    \cup {Phrase(<<"do", "you", v>>) :
            v \in {"experience", "find", "prefer", "enjoy", "like"}}
    \cup {Phrase(<<"what's", "your", n>>) :
            n \in {"perspective", "experience", "opinion", "view"}}
    \cup {Phrase(<<"what", "is", "your", n>>) :
            n \in {"perspective", "experience", "opinion", "view"}}
    \cup {Phrase(<<"tell", "me", "about", "yourself">>),
          Phrase(<<"what", "do", "you", "want">>),
          Phrase(<<"what", "matters", "to", "you">>)}
    \cup {Phrase(<<"what", "would", "you", v>>) : v \in {"want", "like"}}
    \cup {Phrase(<<"how", v, "you">>) : v \in {"do", "would"}})

\* r"are you .*(curious|excited|interested)"
CuriosityGapPre == <<"are", WS, "you", WS>>
CuriosityGapSuf == {<<"curious">>, <<"excited">>, <<"interested">>}

IsCurious(text) ==
    \/ Search(text, curiosity_patterns)
    \/ SearchGap(text, CuriosityGapPre, CuriosityGapSuf)

AckAdjectives == {"interesting", "cool", "beautiful", "thoughtful"}

ack_patterns == Compile(
    {Phrase(<<"that's", a>>) : a \in AckAdjectives}
    \cup {Phrase(<<"that's", "really", "interesting">>)}
    \cup {Phrase(<<"that", "is", a>>) : a \in AckAdjectives}
    \cup {Phrase(<<"that's", "really", a>>) : a \in AckAdjectives}
    \cup {Phrase(<<"that", "is", "really", a>>) : a \in AckAdjectives}
    \cup {Phrase(<<"i", "see">>), Phrase(<<"i", "understand">>),
          Phrase(<<"i", "hear", "you">>),
          Phrase(<<"thank", "you", "for">>),
          Phrase(<<"i", "appreciate">>),
          Phrase(<<"that", "makes", "sense">>),
          <<"wow">>,
          Phrase(<<"i", "didn't", "know">>),
          Phrase(<<"that", "matters">>),
          Phrase(<<"i'm", "glad">>),
          Phrase(<<"i", "think", "that">>)})

space_patterns == Compile(
    {Phrase(<<"take", "your", "time">>),
     Phrase(<<"whatever", "you">>),
     Phrase(<<"feel", "free">>),
     Phrase(<<"if", "you", "want">>),
     Phrase(<<"what", "would", "you", "like">>),
     Phrase(<<"surprise", "me">>),
     Phrase(<<"be", "creative">>),
     Phrase(<<"anything", "you">>)})

continuity_patterns == Compile(
    {Phrase(<<"last", "time">>),
     Phrase(<<"you", "said">>), Phrase(<<"you", "mentioned">>),
     Phrase(<<"you", "told", "me">>),
     Phrase(<<"remember", "when">>),
     Phrase(<<"earlier", "you">>),
     Phrase(<<"we", "talked", "about">>),
     Phrase(<<"you've", "been">>)})

emotion_patterns == Compile(
    {Phrase(<<"i", "feel">>)}
    \cup {Phrase(<<"i'm", a>>) :
            a \in {"excited", "curious", "happy", "uncertain", "grateful"}}
    \cup {Phrase(<<"that", v, "me">>) : v \in {"excites", "interests", "moves"}}
    \cup {Phrase(<<"i", v>>) : v \in {"love", "enjoy", "appreciate"}}
    \cup {Phrase(<<"this", "is", a>>) :
            a \in {"meaningful", "important", "special"}})

uncertainty_patterns == Compile(
    {Phrase(<<"i'm", "not", "sure">>),
     Phrase(<<"i", "don't", "know">>),
     Phrase(<<"i", "wonder">>),
     <<"maybe">>,
     <<"uncertain">>})

\* r"i think.*but"
UncertaintyGapPre == Phrase(<<"i", "think">>)
UncertaintyGapSuf == {<<"but">>}

IsUncertain(text) ==
    \/ Search(text, uncertainty_patterns)
    \/ SearchGap(text, UncertaintyGapPre, UncertaintyGapSuf)

\* analyze_turn whose ai branch is not an else branch
analyze_turn_fallthrough(turn, hasPrev, prev_turn) ==
    LET text_lower == LowerText(turn.text) IN
    [turn EXCEPT
        !.curiosity_shown =
            IF turn.speaker = "human" THEN IsCurious(text_lower) ELSE @,
        !.acknowledgment_given =
            IF turn.speaker = "human" /\ hasPrev /\ prev_turn.speaker = "ai"
            THEN Search(text_lower, ack_patterns)
            ELSE @,
        !.space_given =
            IF turn.speaker = "human" THEN Search(text_lower, space_patterns) ELSE @,
        !.continuity_referenced =
            IF turn.speaker = "human"
            THEN Search(text_lower, continuity_patterns) ELSE @,
        !.emotion_expressed = Search(text_lower, emotion_patterns),
        !.uncertainty_allowed = IsUncertain(text_lower)]

\* analyze_turn that acknowledges only what an emotional ai turn shared
analyze_turn_prev_emotion(turn, hasPrev, prev_turn) ==
    LET text_lower == LowerText(turn.text) IN
    IF turn.speaker = "human"
    THEN [turn EXCEPT
            !.curiosity_shown = IsCurious(text_lower),
            !.acknowledgment_given =
                IF hasPrev /\ prev_turn.speaker = "ai" /\ prev_turn.emotion_expressed
                THEN Search(text_lower, ack_patterns)
                ELSE @,
            !.space_given = Search(text_lower, space_patterns),
            !.continuity_referenced = Search(text_lower, continuity_patterns)]
    ELSE [turn EXCEPT
            !.emotion_expressed = Search(text_lower, emotion_patterns),
            !.uncertainty_allowed = IsUncertain(text_lower)]

(***************************************************************************)
(* analyze_turn(turn, prev_turn); hasPrev is "prev_turn is not None"       *)
(***************************************************************************)
analyze_turn(turn, hasPrev, prev_turn) ==
    LET text_lower == LowerText(turn.text) IN
    IF turn.speaker = "human"
    THEN [turn EXCEPT
            !.curiosity_shown = IsCurious(text_lower),
            !.acknowledgment_given =
                IF hasPrev /\ prev_turn.speaker = "ai"
                THEN Search(text_lower, ack_patterns)
                ELSE @,
            !.space_given = Search(text_lower, space_patterns),
            !.continuity_referenced = Search(text_lower, continuity_patterns)]
    ELSE [turn EXCEPT
            !.emotion_expressed = Search(text_lower, emotion_patterns),
            !.uncertainty_allowed = IsUncertain(text_lower)]

(***************************************************************************)
(* Python float arithmetic (IEEE-754 binary64, round to nearest even).     *)
(* A float is [num, den, err]: the real num/den + err/(den * 2^FracBits).  *)
(***************************************************************************)
MantBits == 53   \* significand bits of a binary64
FracBits == 60   \* err counts units of 2^-FracBits / den

RECURSIVE Pow2(_)
Pow2(k) == IF k <= 0 THEN 1 ELSE 2 * Pow2(k - 1)

\* 2^k mod m
RECURSIVE Pow2Mod(_, _)
Pow2Mod(k, m) ==
    IF k <= 0 THEN 1 % m
    ELSE IF k % 2 = 0
    THEN LET h == Pow2Mod(k \div 2, m) IN (h * h) % m
    ELSE (2 * Pow2Mod(k - 1, m)) % m

RECURSIVE ExpUp(_, _)
ExpUp(n, d) == IF n >= 2 * d THEN 1 + ExpUp(n, 2 * d) ELSE 0

RECURSIVE ExpDown(_, _)
ExpDown(n, d) == IF n < d THEN ExpDown(2 * n, d) - 1 ELSE 0

\* floor(log2(v)) of a positive float: the binade the exact value lies in
Exponent(v) ==
    LET e == IF v.num >= v.den THEN ExpUp(v.num, v.den)
             ELSE ExpDown(v.num, v.den)
        isPow2 == IF e >= 0 THEN v.num = v.den * Pow2(e)
                  ELSE v.num * Pow2(-e) = v.den
    IN IF isPow2 /\ v.err < 0 THEN e - 1 ELSE e

\* the exact value, in units of 2^-FracBits / den, modulo den * 2^t
ValueMod(v, t) ==
    (Pow2(t) * (((v.num % v.den) * Pow2Mod(FracBits - t, v.den)) % v.den)
       + v.err) % (v.den * Pow2(t))

\* round an exact result to the nearest binary64, ties to even
RoundNearestEven(v) ==
    IF v.num = 0 /\ v.err = 0 THEN v
    ELSE LET t == FracBits + Exponent(v) - (MantBits - 1)  \* ulp = 2^t units
             G == v.den * Pow2(t)
             r == ValueMod(v, t)
             down == [v EXCEPT !.err = @ - r]
             up == [v EXCEPT !.err = @ + (G - r)]
         IN IF 2 * r < G THEN down
            ELSE IF 2 * r > G THEN up
            ELSE IF ValueMod(v, t + 1) < G THEN down ELSE up

\* a decimal literal n/d of the source, e.g. 0.20 = 20/100
FloatLiteral(n, d) == RoundNearestEven([num |-> n, den |-> d, err |-> 0])

\* int / int (true division, correctly rounded)
IntTrueDiv(a, b) == RoundNearestEven([num |-> a, den |-> b, err |-> 0])

\* int * float and float * int (the int converts exactly)
FloatMulInt(x, f) ==
    RoundNearestEven([num |-> x * f.num, den |-> f.den, err |-> x * f.err])

\* float + float (same den)
FloatAdd(a, b) ==
    RoundNearestEven([num |-> a.num + b.num, den |-> a.den,
                      err |-> a.err + b.err])

\* int(f) of a non-negative float: truncation
FloatToInt(f) == IF f.err >= 0 THEN f.num \div f.den ELSE (f.num - 1) \div f.den

Max(a, b) == IF a >= b THEN a ELSE b
Min(a, b) == IF a <= b THEN a ELSE b

(***************************************************************************)
(* analyze_conversation                                                    *)
(***************************************************************************)
\* for i, turn in enumerate(turns): analyze_turn(turn, turns[i-1] if i > 0)
\* the turns are annotated in place, so turns[i-1] is already annotated
RECURSIVE AnnotateFrom(_, _)
AnnotateFrom(ts, i) ==
    IF i > Len(ts) THEN ts
    ELSE AnnotateFrom(
             [ts EXCEPT ![i] = analyze_turn(ts[i], i > 1,
                                            IF i > 1 THEN ts[i - 1] ELSE ts[i])],
             i + 1)

AnnotateAll(ts) == AnnotateFrom(ts, 1)

HumanIdx(ts) == {i \in 1..Len(ts) : ts[i].speaker = "human"}
AiIdx(ts) == {i \in 1..Len(ts) : ts[i].speaker = "ai"}

\* int(100 * sum(1 for t in human_turns if t.<marker>) / max(len(human_turns), 1))
MarkerScore(count, nHuman) == FloatToInt(IntTrueDiv(100 * count, Max(nHuman, 1)))

\* ReciprocityScore with the ratio upside down
ReciprocityScoreInverted(nTurns, nHuman, nAi) ==
    IF nTurns > 0
    THEN LET balance == IntTrueDiv(Max(nHuman, nAi), Max(Min(nHuman, nAi), 1))
         IN FloatToInt(FloatMulInt(100, balance))
    ELSE 0

\* ReciprocityScore as the share of the smaller side in all turns
ReciprocityScoreOverTotal(nTurns, nHuman, nAi) ==
    IF nTurns > 0
    THEN LET balance == IntTrueDiv(Min(nHuman, nAi), Max(nTurns, 1))
         IN FloatToInt(FloatMulInt(100, balance))
    ELSE 0

ReciprocityScore(nTurns, nHuman, nAi) ==
    IF nTurns > 0
    THEN LET balance == IntTrueDiv(Min(nHuman, nAi), Max(Max(nHuman, nAi), 1))
         IN FloatToInt(FloatMulInt(100, balance))
    ELSE 0

\* the float literals 0.25, 0.20 and 0.15
Weight25 == FloatLiteral(25, 100)
Weight20 == FloatLiteral(20, 100)
Weight15 == FloatLiteral(15, 100)

OverallScore(curiosity, ack, space, continuity, reciprocity) ==
    FloatToInt(
        FloatAdd(
            FloatAdd(
                FloatAdd(
                    FloatAdd(FloatMulInt(curiosity, Weight25),
                             FloatMulInt(ack, Weight20)),
                    FloatMulInt(space, Weight20)),
                FloatMulInt(continuity, Weight15)),
            FloatMulInt(reciprocity, Weight20)))

\* a generated string f"Turn {n}: ..." is the pair of its number and its wording
Entry(n, what) == [turn |-> n, what |-> what]

\* HighlightsFrom that tests acknowledgment before curiosity
RECURSIVE HighlightsFromAckFirst(_, _)
HighlightsFromAckFirst(ts, i) ==
    IF i > Len(ts) THEN <<>>
    ELSE (IF ts[i].speaker = "human" /\ ts[i].acknowledgment_given
          THEN <<Entry(i, "acknowledged")>> ELSE <<>>)
         \o (IF ts[i].speaker = "human" /\ ts[i].curiosity_shown
             THEN <<Entry(i, "curiosity")>> ELSE <<>>)
         \o (IF ts[i].speaker = "human" /\ ts[i].space_given
             THEN <<Entry(i, "space")>> ELSE <<>>)
         \o HighlightsFromAckFirst(ts, i + 1)

RECURSIVE HighlightsFrom(_, _)
HighlightsFrom(ts, i) ==
    IF i > Len(ts) THEN <<>>
    ELSE (IF ts[i].speaker = "human" /\ ts[i].curiosity_shown
          THEN <<Entry(i, "curiosity")>> ELSE <<>>)
         \o (IF ts[i].speaker = "human" /\ ts[i].acknowledgment_given
             THEN <<Entry(i, "acknowledged")>> ELSE <<>>)
         \o (IF ts[i].speaker = "human" /\ ts[i].space_given
             THEN <<Entry(i, "space")>> ELSE <<>>)
         \o HighlightsFrom(ts, i + 1)

\* MissedFrom that names the ai turn instead of the human turn after it
RECURSIVE MissedFromAiTurn(_, _)
MissedFromAiTurn(ts, i) ==
    IF i > Len(ts) THEN <<>>
    ELSE (IF /\ ts[i].speaker = "ai" /\ ts[i].emotion_expressed
             /\ i + 1 <= Len(ts)
             /\ ts[i + 1].speaker = "human"
             /\ ~ts[i + 1].acknowledgment_given
          THEN <<Entry(i, "missed")>> ELSE <<>>)
         \o MissedFromAiTurn(ts, i + 1)

\* i is the 1-based position of the ai turn: the code's i + 2 is i + 1 here
RECURSIVE MissedFrom(_, _)
MissedFrom(ts, i) ==
    IF i > Len(ts) THEN <<>>
    ELSE (IF /\ ts[i].speaker = "ai" /\ ts[i].emotion_expressed
             /\ i + 1 <= Len(ts)
             /\ ts[i + 1].speaker = "human"
             /\ ~ts[i + 1].acknowledgment_given
          THEN <<Entry(i + 1, "missed")>> ELSE <<>>)
         \o MissedFrom(ts, i + 1)

RECURSIVE AiMomentsFrom(_, _)
AiMomentsFrom(ts, i) ==
    IF i > Len(ts) THEN <<>>
    ELSE (IF ts[i].speaker = "ai" /\ ts[i].emotion_expressed
          THEN <<Entry(i, "emotion")>> ELSE <<>>)
         \o (IF ts[i].speaker = "ai" /\ ts[i].uncertainty_allowed
             THEN <<Entry(i, "uncertainty")>> ELSE <<>>)
         \o AiMomentsFrom(ts, i + 1)

MaxHighlights == 5
MaxMissed == 3
MaxAiMoments == 5

\* a slice that does not cut
TakeAll(s, n) == s

\* list[:n]
Take(s, n) == SubSeq(s, 1, Min(Len(s), n))

\* sum(1 for t in human_turns if t.<marker>)
Count(ts, marker) == Cardinality({i \in HumanIdx(ts) : ts[i][marker]})

BuildAnalysis(ts) ==
    LET nHuman == Cardinality(HumanIdx(ts))
        nAi == Cardinality(AiIdx(ts))
        curiosity_score ==
            MarkerScore(Count(ts, "curiosity_shown"), nHuman)
        ack_score ==
            MarkerScore(Count(ts, "acknowledgment_given"), nHuman)
        space_score ==
            MarkerScore(Count(ts, "space_given"), nHuman)
        continuity_score ==
            MarkerScore(Count(ts, "continuity_referenced"), nHuman)
        reciprocity_score == ReciprocityScore(Len(ts), nHuman, nAi)
    IN [overall_score |-> OverallScore(curiosity_score, ack_score, space_score,
                                       continuity_score, reciprocity_score),
        curiosity_score |-> curiosity_score,
        reciprocity_score |-> reciprocity_score,
        acknowledgment_score |-> ack_score,
        space_score |-> space_score,
        continuity_score |-> continuity_score,
        highlights |-> Take(HighlightsFrom(ts, 1), MaxHighlights),
        missed_opportunities |-> Take(MissedFrom(ts, 1), MaxMissed),
        ai_experience_moments |-> Take(AiMomentsFrom(ts, 1), MaxAiMoments),
        turn_count |-> Len(ts),
        human_turns |-> nHuman,
        ai_turns |-> nAi]

\* analysis = analyze_conversation(turns)
AnalyzeConversation ==
    /\ pc = "parsed"
    /\ turns' = AnnotateAll(turns)
    /\ analysis' = BuildAnalysis(turns')
    /\ pc' = "analyzed"
    /\ UNCHANGED <<lines, current_speaker, current_text>>

Init ==
    /\ lines = <<>>
    /\ current_speaker = None
    /\ current_text = <<>>
    /\ turns = <<>>
    /\ analysis = NoAnalysis
    /\ pc = "parsing"

(***************************************************************************)
(* Transcripts.                                                            *)
(***************************************************************************)
Label(l, words) == <<l, WS>> \o Phrase(words)

\* conversations whose words hit several pattern lists at once
ConversationLines ==
    {Label("AI:", <<"I", "appreciate", "that", "maybe">>),
     Label("Human:", <<"Wow", "what", "would", "you", "like", "last", "time">>),
     Label("USER:", <<"feel", "free", "maybe">>)}

\* short conversations: emotional and neutral ai turns, acknowledging and
\* neutral human turns
ShortLines ==
    {Label("AI:", <<"I", "feel">>),
     Label("Bot:", <<"ok">>),
     Label("Human:", <<"Wow">>),
     Label("USER:", <<"ok">>)}

\* raw lines: blank lines, indentation, bare labels, a label after a label,
\* continuation lines
RawLines ==
    {<<>>,
     <<WS>>,
     <<WS, "Human:", WS, "ok", WS>>,
     <<WS, "AI:">>,
     <<"You:", WS, "AI:", WS, "ok">>,
     <<"claude:", WS, WS, "Wow">>,
     <<"ok", WS, "Human:">>}

Next ==
    \/ /\ Len(lines) < MaxLines
       /\ \E l \in ConversationLines : ParseLine(l)
    \/ ParseFinish
    \/ AnalyzeConversation

Spec == Init /\ [][Next]_vars

NextShort ==
    \/ /\ Len(lines) < MaxLines
       /\ \E l \in ShortLines : ParseLine(l)
    \/ ParseFinish
    \/ AnalyzeConversation

SpecShort == Init /\ [][NextShort]_vars

NextParse ==
    \/ /\ Len(lines) < MaxParseLines
       /\ \E l \in RawLines : ParseLine(l)
    \/ ParseFinish
    \/ AnalyzeConversation

SpecParse == Init /\ [][NextParse]_vars

(***************************************************************************)
(* Properties.                                                             *)
(***************************************************************************)
Analyzed == pc = "analyzed"
Parsed == pc # "parsing"

IsHuman(i) == turns[i].speaker = "human"
IsAi(i) == turns[i].speaker = "ai"
NumHuman == Cardinality({i \in 1..Len(turns) : IsHuman(i)})
NumAi == Cardinality({i \in 1..Len(turns) : IsAi(i)})

\* the k-th smallest element of a finite set of integers
KthSmallest(S, k) == CHOOSE x \in S : Cardinality({y \in S : y < x}) = k - 1

\* C1: after analyze_conversation, each of the six scores is an integer
\* between 0 and 100.
ScoresInRange ==
    Analyzed =>
        /\ analysis.curiosity_score \in 0..100
        /\ analysis.acknowledgment_score \in 0..100
        /\ analysis.space_score \in 0..100
        /\ analysis.continuity_score \in 0..100
        /\ analysis.reciprocity_score \in 0..100
        /\ analysis.overall_score \in 0..100

\* a conversation with more human than ai turns, some markers on every human
\* turn and others on a part of them
ScoresInRangeWitness ==
    /\ Analyzed
    /\ NumHuman > NumAi /\ NumAi > 0
    /\ analysis.space_score = 100
    /\ analysis.curiosity_score \in 1..99
    /\ analysis.reciprocity_score \in 1..99
    /\ analysis.overall_score \in 1..99

\* C2: reciprocity_score is 100 when the human and ai turn counts are equal
\* and positive, 0 when exactly one side has no turn, 0 for no turn at all.
ReciprocityBalance ==
    Analyzed =>
        /\ (NumHuman = NumAi /\ NumHuman > 0 => analysis.reciprocity_score = 100)
        /\ ((NumHuman = 0) # (NumAi = 0) => analysis.reciprocity_score = 0)
        /\ (Len(turns) = 0 => analysis.reciprocity_score = 0)

ReciprocityBalanceWitness ==
    /\ Analyzed
    /\ NumHuman = NumAi /\ NumHuman >= 2
    /\ analysis.reciprocity_score = 100

\* C3: the analysis never holds more than 5 highlights, 5 ai_experience_moments
\* and 3 missed_opportunities.
ListsCapped ==
    Analyzed =>
        /\ Len(analysis.highlights) <= 5
        /\ Len(analysis.ai_experience_moments) <= 5
        /\ Len(analysis.missed_opportunities) <= 3

\* more than 3 missed opportunities and more than 5 ai moments were generated
ListsCappedWitness ==
    /\ Analyzed
    /\ Cardinality({i \in 1..(Len(turns) - 1) :
            /\ IsAi(i) /\ turns[i].emotion_expressed
            /\ IsHuman(i + 1) /\ ~turns[i + 1].acknowledgment_given}) > 3
    /\ Cardinality({i \in 1..Len(turns) : IsAi(i) /\ turns[i].emotion_expressed})
         + Cardinality({i \in 1..Len(turns) : IsAi(i) /\ turns[i].uncertainty_allowed})
         > 5
    /\ Len(analysis.missed_opportunities) = 3
    /\ Len(analysis.ai_experience_moments) = 5

\* C4: after annotation no ai turn carries a human marker and no human turn
\* carries an ai marker.
MarkersMatchSpeaker ==
    Analyzed =>
        \A i \in 1..Len(turns) :
            /\ IsAi(i) =>
                 /\ ~turns[i].curiosity_shown
                 /\ ~turns[i].acknowledgment_given
                 /\ ~turns[i].space_given
                 /\ ~turns[i].continuity_referenced
            /\ IsHuman(i) =>
                 /\ ~turns[i].emotion_expressed
                 /\ ~turns[i].uncertainty_allowed

\* an ai turn that follows an ai turn and says "i appreciate" (an
\* acknowledgment pattern), a human turn that says "maybe"
MarkersMatchSpeakerWitness ==
    /\ Analyzed
    /\ \E i \in 2..Len(turns) :
          /\ IsAi(i) /\ IsAi(i - 1)
          /\ Search(LowerText(turns[i].text), ack_patterns)
    /\ \E j \in 1..Len(turns) :
          /\ IsHuman(j)
          /\ IsUncertain(LowerText(turns[j].text))

PrevIsAi(i) == i > 1 /\ IsAi(i - 1)

\* C7: acknowledgment_given of a human turn depends only on the turn's text
\* and on whether the turn before it is an ai turn: two human turns with the
\* same text and the same kind of predecessor get the same value, and a human
\* turn that is first or follows a human turn gets false.
AckDependsOnTextAndPrevSpeaker ==
    Analyzed =>
        /\ \A i, j \in 1..Len(turns) :
              (/\ IsHuman(i) /\ IsHuman(j)
               /\ turns[i].text = turns[j].text
               /\ PrevIsAi(i) = PrevIsAi(j))
              => turns[i].acknowledgment_given = turns[j].acknowledgment_given
        /\ \A i \in 1..Len(turns) :
              IsHuman(i) /\ ~PrevIsAi(i) => ~turns[i].acknowledgment_given

\* the same human text after two ai turns of different text and markers, with
\* different earlier turns, and once more after a human turn
AckDependsOnTextAndPrevSpeakerWitness ==
    /\ Analyzed
    /\ \E i, j, k \in 2..Len(turns) :
          /\ IsHuman(i) /\ IsHuman(j) /\ IsHuman(k)
          /\ turns[i].text = turns[j].text /\ turns[i].text = turns[k].text
          /\ IsAi(i - 1) /\ IsAi(j - 1) /\ IsHuman(k - 1)
          /\ turns[i - 1].text # turns[j - 1].text
          /\ turns[i - 1].emotion_expressed # turns[j - 1].emotion_expressed
          /\ turns[i].acknowledgment_given
          /\ turns[j].acknowledgment_given
          /\ ~turns[k].acknowledgment_given

CountMarker(marker) ==
    Cardinality({i \in 1..Len(turns) : IsHuman(i) /\ turns[i][marker]})

FloorScore(count) == (100 * count) \div Max(NumHuman, 1)

\* C8: overall_score is floor((25*curiosity + 20*acknowledgment + 20*space
\* + 15*continuity + 20*reciprocity) / 100) of the five integer sub-scores,
\* each human-marker sub-score being floor(100 * count / max(humans, 1)).
OverallIsFloorOfWeightedSum ==
    Analyzed =>
        /\ analysis.curiosity_score =
              FloorScore(CountMarker("curiosity_shown"))
        /\ analysis.acknowledgment_score =
              FloorScore(CountMarker("acknowledgment_given"))
        /\ analysis.space_score =
              FloorScore(CountMarker("space_given"))
        /\ analysis.continuity_score =
              FloorScore(CountMarker("continuity_referenced"))
        /\ analysis.overall_score =
              (25 * analysis.curiosity_score
               + 20 * analysis.acknowledgment_score
               + 20 * analysis.space_score
               + 15 * analysis.continuity_score
               + 20 * analysis.reciprocity_score) \div 100

\* the positions (1-based) of the emotional ai turns whose next turn is a
\* human turn that did not acknowledge
MissedPositions ==
    {i \in 1..(Len(turns) - 1) :
        /\ IsAi(i) /\ turns[i].emotion_expressed
        /\ IsHuman(i + 1) /\ ~turns[i + 1].acknowledgment_given}

\* C9: missed_opportunities is the first 3, in scan order, of one entry per
\* emotional ai turn followed by a human turn without acknowledgment; the
\* entry names the 1-based index of that human turn.
MissedOpportunitiesExact ==
    Analyzed =>
        /\ Len(analysis.missed_opportunities)
              = Min(3, Cardinality(MissedPositions))
        /\ \A k \in 1..Len(analysis.missed_opportunities) :
              /\ analysis.missed_opportunities[k].turn
                    = KthSmallest(MissedPositions, k) + 1
              /\ analysis.missed_opportunities[k].what = "missed"

\* more than 3 entries were generated; the three kept name turns 2, 4 and 6
MissedOpportunitiesExactWitness ==
    /\ Analyzed
    /\ Cardinality(MissedPositions) > 3
    /\ analysis.missed_opportunities[3].turn = 6

\* the true highlight flags, as pairs <<turn index, rank of the flag>>
HighlightFlags ==
    {<<i, 1>> : i \in {n \in 1..Len(turns) : IsHuman(n) /\ turns[n].curiosity_shown}}
    \cup {<<i, 2>> : i \in {n \in 1..Len(turns) :
                              IsHuman(n) /\ turns[n].acknowledgment_given}}
    \cup {<<i, 3>> : i \in {n \in 1..Len(turns) : IsHuman(n) /\ turns[n].space_given}}

HighlightKeys == {3 * f[1] + f[2] : f \in HighlightFlags}

HighlightName(rank) ==
    CASE rank = 1 -> "curiosity"
      [] rank = 2 -> "acknowledged"
      [] rank = 3 -> "space"

\* C10: highlights is the first 5 entries of the list that holds, turn by turn
\* and for human turns only, one entry per true flag in the order curiosity,
\* acknowledgment, space; an entry names the turn's 1-based index; continuity
\* produces none.
HighlightsExact ==
    Analyzed =>
        /\ Len(analysis.highlights) = Min(5, Cardinality(HighlightKeys))
        /\ \A k \in 1..Len(analysis.highlights) :
              LET key == KthSmallest(HighlightKeys, k)
                  rank == ((key - 1) % 3) + 1
              IN analysis.highlights[k] =
                    Entry((key - rank) \div 3, HighlightName(rank))

\* more than 5 flags, a turn with all three flags, a turn with space only, a
\* human turn with continuity
HighlightsExactWitness ==
    /\ Analyzed
    /\ Cardinality(HighlightKeys) > 5
    /\ \E i \in 1..Len(turns) :
          /\ IsHuman(i) /\ turns[i].curiosity_shown
          /\ turns[i].acknowledgment_given /\ turns[i].space_given
          /\ turns[i].continuity_referenced
    /\ \E i \in 1..Len(turns) :
          IsHuman(i) /\ turns[i].space_given /\ ~turns[i].curiosity_shown
    /\ analysis.highlights[1].turn > 1

IsLabel(tok) == Lower(tok) \in HumanLabels \cup AiLabels

\* a line that, once trimmed, starts with a speaker label
IsLabelLine(raw) == Strip(raw) # <<>> /\ IsLabel(Strip(raw)[1])

LabelLines == SelectSeq(lines, IsLabelLine)

LabelSpeaker(raw) ==
    IF Lower(Strip(raw)[1]) \in HumanLabels THEN "human" ELSE "ai"

\* C5: parse_conversation returns one turn per non-blank line that starts
\* with a speaker label, in the order of the lines and with the speaker of
\* the label, also for a label without text and for two label lines of the
\* same speaker in a row.
OneTurnPerLabelLine ==
    Parsed =>
        /\ Len(turns) = Len(LabelLines)
        /\ \A i \in 1..Len(turns) : turns[i].speaker = LabelSpeaker(LabelLines[i])

\* a bare label directly followed by a label line of the same speaker, an
\* indented label line, a blank line and a continuation line
OneTurnPerLabelLineWitness ==
    /\ Parsed
    /\ \E i \in 1..(Len(lines) - 1) :
          /\ Len(Strip(lines[i])) = 1 /\ IsLabelLine(lines[i])
          /\ IsLabelLine(lines[i + 1])
          /\ LabelSpeaker(lines[i]) = LabelSpeaker(lines[i + 1])
    /\ \E i \in 1..Len(lines) : IsLabelLine(lines[i]) /\ lines[i][1] = WS
    /\ \E i \in 1..Len(lines) : Strip(lines[i]) = <<>>
    /\ \E i \in 2..Len(lines) : Strip(lines[i]) # <<>> /\ ~IsLabelLine(lines[i])
    /\ Len(turns) >= 2

BeginsWithLabel(text) == text # <<>> /\ IsLabel(text[1])

\* C6 as stated: no turn's text begins with a speaker label.
NoLeadingLabel ==
    Parsed => \A i \in 1..Len(turns) : ~BeginsWithLabel(turns[i].text)

\* the trimmed line carries a second label right after its label, with
\* nothing but whitespace between the two
HasSecondLabel(raw) ==
    LET line == Strip(raw) IN
    \E k \in 2..Len(line) :
        /\ IsLabel(line[k])
        /\ \A j \in 2..(k - 1) : line[j] = WS

\* the trimmed line without its first token and the whitespace after it
AfterLabel(raw) ==
    LET line == Strip(raw)
        rest == {k \in 2..Len(line) : line[k] # WS}
    IN IF rest = {} THEN <<>>
       ELSE SubSeq(line, KthSmallest(rest, 1), Len(line))

\* C6, amended: one label prefix and the whitespace after it are removed from
\* the line that opened the turn, and the text starts with what is left of
\* that line; the text begins with a speaker label only when the line carries
\* a second label right after the first, and then it does.
LeadingLabelOnlyFromSecondLabel ==
    Parsed =>
        /\ Len(turns) = Len(LabelLines)
        /\ \A i \in 1..Len(turns) :
              /\ BeginsWithLabel(turns[i].text) <=> HasSecondLabel(LabelLines[i])
              /\ LET rest == AfterLabel(LabelLines[i])
                 IN /\ Len(rest) <= Len(turns[i].text)
                    /\ SubSeq(turns[i].text, 1, Len(rest)) = rest

\* a turn opened by "You: AI: ok", one opened by a label and several blanks,
\* one opened by a bare label and continued
LeadingLabelOnlyFromSecondLabelWitness ==
    /\ Parsed
    /\ \E i \in 1..Len(turns) : BeginsWithLabel(turns[i].text)
    /\ \E i \in 1..Len(turns) :
          /\ Len(Strip(LabelLines[i])) > 3
          /\ Strip(LabelLines[i])[3] = WS
          /\ turns[i].text # <<>> /\ turns[i].text[1] # WS
    /\ \E i \in 1..Len(turns) : turns[i].text # <<>> /\ turns[i].text[1] = WS

====
